---- MODULE Spec2Model ----
(***************************************************************************)
(* A model of http_server.py: the accept loop (main), the session loop     *)
(* (handle_client), request validation, routing and the response builders. *)
(* Python str values are TLA+ strings; a character is a string of length   *)
(* one.  The alphabet is Latin-1, so every character is one code unit.      *)
(***************************************************************************)
EXTENDS Integers, Sequences, FiniteSets, TLC

VARIABLES pc, server_socket, client_socket, close_sever, exc,
          accepted, served, client_request, sent, files

vars == <<pc, server_socket, client_socket, close_sever, exc,
          accepted, served, client_request, sent, files>>

(***************************************************************************)
(* Bounds of the model.                                                    *)
(***************************************************************************)
MaxConnections == 2
MaxRequests == 2

(***************************************************************************)
(* Constants of the program.                                               *)
(***************************************************************************)
CLOSE_SERVER_STATUS_CODE == 1
DEFAULT_URL == "webroot/index.html"
REDIRECTION_DICTIONARY ==
    [k \in {"webroot/home.html", "home", "home.html", "webroot/home"}
        |-> "webroot/index.html"]
STATUS_CODE ==
    [c \in {200, 404, 302, 500} |->
        CASE c = 200 -> "HTTP/1.1 200 OK\r\n"
          [] c = 404 -> "HTTP/1.1 404 Not Found\r\n"
          [] c = 302 -> "HTTP/1.1 302 Moved Temporarily\r\n"
          [] c = 500 -> "HTTP/1.1 500 Internal Server Error\r\n"]

(***************************************************************************)
(* Python str methods used by the program.                                 *)
(***************************************************************************)
Ch(s, i) == SubSeq(s, i, i)

Min(S) == CHOOSE x \in S : \A y \in S : x <= y
Max(S) == CHOOSE x \in S : \A y \in S : x >= y

\* s.startswith(p)
StartsWith(s, p) == Len(p) <= Len(s) /\ SubSeq(s, 1, Len(p)) = p

\* s.endswith(p)
EndsWith(s, p) == Len(p) <= Len(s) /\ SubSeq(s, Len(s) - Len(p) + 1, Len(s)) = p

\* the places of s, from i on, where sub occurs
Occurrences(s, sub, i) ==
    {j \in i..(Len(s) - Len(sub) + 1) : SubSeq(s, j, j + Len(sub) - 1) = sub}

\* s.find(sub, i), 1-based; 0 when sub does not occur at or after i
FirstOf(hits) == IF hits = {} THEN 0 ELSE Min(hits)
Find(s, sub, i) == FirstOf(Occurrences(s, sub, i))

\* sub in s
Contains(s, sub) == Occurrences(s, sub, 1) # {}

\* s.split(sep): the list of the parts between the occurrences of sep
RECURSIVE Split(_, _)
SplitAt(s, sep, i) ==
    IF i = 0 THEN <<s>>
    ELSE <<SubSeq(s, 1, i - 1)>> \o Split(SubSeq(s, i + Len(sep), Len(s)), sep)
Split(s, sep) == SplitAt(s, sep, Find(s, sep, 1))

\* parts[-1]
Last(parts) == parts[Len(parts)]

\* the characters str.split() treats as whitespace
IsSpace(c) == c \in {" ", "\t", "\n", "\r", "\f"}

\* the number of leading characters of s that are whitespace / are not
RunUpTo(s, stops) == IF stops = {} THEN Len(s) ELSE Min(stops) - 1
SpaceRun(s) == RunUpTo(s, {j \in 1..Len(s) : ~IsSpace(Ch(s, j))})
WordRun(s) == RunUpTo(s, {j \in 1..Len(s) : IsSpace(Ch(s, j))})

\* s.split(): the maximal runs of non-whitespace characters
RECURSIVE SplitWhitespace(_)
SplitWord(t, n) ==
    IF t = "" THEN <<>>
    ELSE <<SubSeq(t, 1, n)>> \o SplitWhitespace(SubSeq(t, n + 1, Len(t)))
SplitWords(t) == SplitWord(t, WordRun(t))
SplitWhitespace(s) == SplitWords(SubSeq(s, SpaceRun(s) + 1, Len(s)))

\* s.lstrip(c), s.rstrip(c) and s.strip(c) for a single character c
KeepFrom(s, others) == IF others = {} THEN "" ELSE SubSeq(s, Min(others), Len(s))
KeepUpTo(s, others) == IF others = {} THEN "" ELSE SubSeq(s, 1, Max(others))
LStrip(s, c) == KeepFrom(s, {j \in 1..Len(s) : Ch(s, j) # c})
RStrip(s, c) == KeepUpTo(s, {j \in 1..Len(s) : Ch(s, j) # c})
Strip(s, c) == RStrip(LStrip(s, c), c)

\* str(n) for an int n >= 0 that fits a machine word
RECURSIVE IntStr(_)
IntStr(n) ==
    IF n < 10 THEN Ch("0123456789", n + 1)
    ELSE IntStr(n \div 10) \o Ch("0123456789", (n % 10) + 1)

(***************************************************************************)
(* Python int and float.  An int is unbounded: it is kept as the sequence  *)
(* of its base-10000 digits ("limbs"), the least significant first and the *)
(* most significant not 0 (so 0 is <<>>).  A float is an IEEE-754 double,  *)
(* kept as <<m, e>> for the value m * 2^e with m an int below 2^53.        *)
(***************************************************************************)
DigitVal(c) == CHOOSE d \in 0..9 : Ch("0123456789", d + 1) = c

\* a without its most significant limbs that are 0
KeepLimbs(a, nonzero) == IF nonzero = {} THEN <<>> ELSE SubSeq(a, 1, Max(nonzero))
Norm(a) == KeepLimbs(a, {i \in 1..Len(a) : a[i] # 0})

\* the value of a numeral of at most four digits
RECURSIVE LimbOf(_)
LimbOf(t) ==
    IF t = "" THEN 0
    ELSE LimbOf(SubSeq(t, 1, Len(t) - 1)) * 10 + DigitVal(Ch(t, Len(t)))

\* int(s) for a numeral s
IntOf(s) ==
    Norm([i \in 1..((Len(s) + 3) \div 4) |->
            LimbOf(SubSeq(s, Max({1, Len(s) - 4 * i + 1}), Len(s) - 4 * (i - 1)))])

\* str(a) for an int a >= 0
Pad4(t) == SubSeq("000", 1, 4 - Len(t)) \o t
RECURSIVE LowLimbs(_, _)
LowLimbs(a, i) == IF i = 0 THEN "" ELSE Pad4(IntStr(a[i])) \o LowLimbs(a, i - 1)
StrOf(a) ==
    IF a = <<>> THEN "0" ELSE IntStr(a[Len(a)]) \o LowLimbs(a, Len(a) - 1)

Limb(a, i) == IF i <= Len(a) THEN a[i] ELSE 0

\* a + b
RECURSIVE AddFrom(_, _, _, _)
AddStep(a, b, i, v) == <<v % 10000>> \o AddFrom(a, b, i + 1, v \div 10000)
AddFrom(a, b, i, carry) ==
    IF i > Len(a) /\ i > Len(b) THEN (IF carry = 0 THEN <<>> ELSE <<carry>>)
    ELSE AddStep(a, b, i, Limb(a, i) + Limb(b, i) + carry)
BigAdd(a, b) == AddFrom(a, b, 1, 0)

\* a * d for a limb d
RECURSIVE MulLimbFrom(_, _, _, _)
MulLimbStep(a, d, i, v) == <<v % 10000>> \o MulLimbFrom(a, d, i + 1, v \div 10000)
MulLimbFrom(a, d, i, carry) ==
    IF i > Len(a) THEN (IF carry = 0 THEN <<>> ELSE <<carry>>)
    ELSE MulLimbStep(a, d, i, a[i] * d + carry)

\* a * b
RECURSIVE MulFrom(_, _, _)
MulFrom(a, b, j) ==
    IF j > Len(b) THEN <<>>
    ELSE BigAdd(MulLimbFrom(a, b[j], 1, 0), <<0>> \o MulFrom(a, b, j + 1))
BigMul(a, b) == Norm(MulFrom(a, b, 1))

\* a // 2 and a % 2
RECURSIVE HalfFrom(_, _, _)
HalfStep(a, i, v) == HalfFrom(a, i - 1, v % 2) \o <<v \div 2>>
HalfFrom(a, i, rem) ==
    IF i = 0 THEN <<>> ELSE HalfStep(a, i, rem * 10000 + a[i])
BigHalf(a) == Norm(HalfFrom(a, Len(a), 0))
BigOdd(a) == a # <<>> /\ a[1] % 2 = 1

\* a < b
LessAt(a, b, differ) == differ # {} /\ a[Max(differ)] < b[Max(differ)]
BigLess(a, b) ==
    \/ Len(a) < Len(b)
    \/ Len(a) = Len(b) /\ LessAt(a, b, {i \in 1..Len(a) : a[i] # b[i]})

\* a * 2^k
RECURSIVE BigShiftLeft(_, _)
BigShiftLeft(a, k) == IF k = 0 THEN a ELSE BigShiftLeft(BigAdd(a, a), k - 1)

\* 2^53: a double has a significand of 53 bits
TwoTo53 == IntOf("9007199254740992")

\* the significand of n cut to 53 bits: <<m, e, guard, sticky>> with
\* n = m * 2^e + (the e bits shifted out), guard the last bit shifted out
\* and sticky whether any earlier one was set
RECURSIVE Truncate(_, _, _, _)
Truncate(m, e, guard, sticky) ==
    IF BigLess(m, TwoTo53) THEN <<m, e, guard, sticky>>
    ELSE Truncate(BigHalf(m), e + 1, BigOdd(m), sticky \/ guard)

\* float(n) for an int n >= 0, rounded to nearest, ties to even: <<m, e>>
Rounded(m, e) == IF m = TwoTo53 THEN <<BigHalf(m), e + 1>> ELSE <<m, e>>
RoundUp(t) ==
    IF t[3] /\ (t[4] \/ BigOdd(t[1]))
    THEN Rounded(BigAdd(t[1], <<1>>), t[2]) ELSE <<t[1], t[2]>>
ToDouble(n) == RoundUp(Truncate(n, 0, FALSE, FALSE))

\* n zeros
RECURSIVE Zeros(_)
Twice(s) == s \o s
Zeros(n) ==
    IF n = 0 THEN ""
    ELSE IF n % 2 = 0 THEN Twice(Zeros(n \div 2))
    ELSE "0" \o Zeros(n - 1)

\* the two numerals of k significant digits next to the numeral v: v cut to
\* k digits, and that plus one unit of its last kept digit
CutTo(v, k) == SubSeq(v, 1, k) \o Zeros(Len(v) - k)
NextTo(v, k) == StrOf(BigAdd(IntOf(CutTo(v, k)), IntOf("1" \o Zeros(Len(v) - k))))

\* of the numerals lo and hi, the one float() maps to the double in
\* question (lo_ok, hi_ok), and of two that do, the one nearer to the exact
\* value (the one with the even last digit when both are as near); twice
\* is two times the exact value and sum is lo + hi
Nearer(lo, hi, lo_ok, hi_ok, twice, sum, lo_odd) ==
    IF lo_ok /\ hi_ok
    THEN (IF BigLess(twice, sum) THEN lo
          ELSE IF BigLess(sum, twice) THEN hi
          ELSE IF lo_odd THEN hi ELSE lo)
    ELSE IF lo_ok THEN lo
    ELSE IF hi_ok THEN hi
    ELSE ""
Candidate(x, d, lo, hi, k) ==
    Nearer(lo, hi, ToDouble(IntOf(lo)) = d, ToDouble(IntOf(hi)) = d,
           BigAdd(x, x), BigAdd(IntOf(lo), IntOf(hi)),
           DigitVal(Ch(lo, k)) % 2 = 1)

\* the numeral of the fewest significant digits that float() maps to the
\* double d, whose value is the int x with the numeral v (the digits that
\* repr() prints), found by trying k = 1, 2, ... digits
RECURSIVE Shortest(_, _, _, _)
ShortestFrom(x, v, d, k, c) == IF c # "" THEN c ELSE Shortest(x, v, d, k + 1)
Shortest(x, v, d, k) ==
    IF k >= Len(v) THEN v
    ELSE ShortestFrom(x, v, d, k, Candidate(x, d, CutTo(v, k), NextTo(v, k), k))

\* repr() of a double of more than 16 integer digits, c being the numeral
\* Shortest found for it: d[.ddd]e+XX
Mantissa(ds) ==
    Ch(ds, 1) \o (IF Len(ds) > 1 THEN "." \o SubSeq(ds, 2, Len(ds)) ELSE "")
ExponentForm(c) == Mantissa(RStrip(c, "0")) \o "e+" \o IntStr(Len(c) - 1)

\* repr() of the double d, whose value is the int x with the numeral v
ReprOf(x, v, d) ==
    IF Len(v) <= 16 THEN v \o ".0" ELSE ExponentForm(Shortest(x, v, d, 1))
ReprInteger(x, d) == ReprOf(x, StrOf(x), d)

\* str(m * 2^e / 2): [raised |-> the exception, text |-> the str]; the
\* largest binary exponent of a finite double is 1023
StrOfHalfDouble(m, e) ==
    IF e = 0
    THEN [raised |-> "none",
          text |-> StrOf(BigHalf(m)) \o (IF BigOdd(m) THEN ".5" ELSE ".0")]
    ELSE IF e - 1 + 52 > 1023
    THEN [raised |-> "OverflowError", text |-> ""]
    ELSE [raised |-> "none",
          text |-> ReprInteger(BigShiftLeft(m, e - 1), <<m, e - 1>>)]

\* str(n / 2) for an int n >= 0
DoubleHalf(d) == StrOfHalfDouble(d[1], d[2])
StrOfHalf(n) == DoubleHalf(ToDouble(n))

\* c.isnumeric() for a character of the Latin-1 alphabet
IsNumericCh(c) == c \in {"0", "1", "2", "3", "4", "5", "6", "7", "8", "9",
                         "²", "³", "¹", "¼", "½", "¾"}
\* c.isdecimal(): the characters int() reads as digits
IsDecimalCh(c) == c \in {"0", "1", "2", "3", "4", "5", "6", "7", "8", "9"}

\* s.isnumeric()
isnumeric(s) == s # "" /\ \A i \in 1..Len(s) : IsNumericCh(Ch(s, i))
\* whether int(s) returns (it raises ValueError otherwise), for an s that
\* passed isnumeric()
IntParses(s) == \A i \in 1..Len(s) : IsDecimalCh(Ch(s, i))

(***************************************************************************)
(* validate_http_request: <<valid, url>>                                   *)
(***************************************************************************)
validate_http_request(request) ==
    LET first_line == Split(request, "\r\n")[1]
        split_request == SplitWhitespace(first_line)
    IN  IF ~StartsWith(first_line, "GET") THEN <<FALSE, "">>
        ELSE IF Len(split_request) # 3 THEN <<FALSE, "">>
        ELSE IF ~Contains(split_request[3], "HTTP") THEN <<FALSE, "">>
        ELSE <<TRUE, split_request[2]>>

(***************************************************************************)
(* The Content Resolver: files maps each path that os.path.isfile accepts  *)
(* to [data, readable]; open() raises IOError on a file it cannot read.    *)
(***************************************************************************)
isfile(fs, path) == path \in DOMAIN fs

\* get_file_data: [raised, data]
get_file_data(fs, filename) ==
    IF filename \in DOMAIN fs /\ fs[filename].readable
    THEN [raised |-> "none", data |-> fs[filename].data]
    ELSE [raised |-> "IOError", data |-> ""]

(***************************************************************************)
(* The Response Builder.  A response is [status, header, body]: the status *)
(* line, what follows it up to the body, and the body; the bytes handed to *)
(* sendall are their concatenation.  A call returns                        *)
(* [ret, sent, raised]: its return value, the responses it wrote and the   *)
(* exception that left it ("none" when it returned).                       *)
(***************************************************************************)
Wire(r) == r.status \o r.header \o r.body

Returned(code, response) == [ret |-> code, sent |-> <<response>>, raised |-> "none"]
Raised(e) == [ret |-> 0, sent |-> <<>>, raised |-> e]

\* get_http_header with the image/gif branch ending like the text branches
get_http_header_gif_as_text(content_length, url, date) ==
    LET http_header == "Date: " \o date \o "\r\n" \o
                       "Content-Length: " \o IntStr(content_length) \o "\r\n"
        accept_bytes == "Accept-Ranges: bytes\r\n\r\n"
        file_type == IF url = "" THEN "html" ELSE Last(Split(url, "."))
    IN  IF file_type = "html" \/ file_type = "txt"
        THEN http_header \o "Content-Type: text/html\r\n\r\n"
        ELSE IF file_type = "css"
        THEN http_header \o "Content-Type: text/css\r\n\r\n"
        ELSE IF file_type = "js"
        THEN http_header \o "Content-Type: text/javascript\r\n\r\n"
        ELSE IF file_type = "jpg"
        THEN http_header \o "Content-Type: image/jpeg\r\n" \o accept_bytes
        ELSE IF file_type = "png"
        THEN http_header \o "Content-Type: image/png\r\n" \o accept_bytes
        ELSE IF file_type = "ico"
        THEN http_header \o "Content-Type: image/icon\r\n" \o accept_bytes
        ELSE IF file_type = "gif"
        THEN http_header \o "Content-Type: image/gif\r\n\r\n"
        ELSE http_header

\* get_http_header; date is datetime.now() as strftime formats it
get_http_header(content_length, url, date) ==
    LET http_header == "Date: " \o date \o "\r\n" \o
                       "Content-Length: " \o IntStr(content_length) \o "\r\n"
        accept_bytes == "Accept-Ranges: bytes\r\n\r\n"
        file_type == IF url = "" THEN "html" ELSE Last(Split(url, "."))
    IN  IF file_type = "html" \/ file_type = "txt"
        THEN http_header \o "Content-Type: text/html\r\n\r\n"
        ELSE IF file_type = "css"
        THEN http_header \o "Content-Type: text/css\r\n\r\n"
        ELSE IF file_type = "js"
        THEN http_header \o "Content-Type: text/javascript\r\n\r\n"
        ELSE IF file_type = "jpg"
        THEN http_header \o "Content-Type: image/jpeg\r\n" \o accept_bytes
        ELSE IF file_type = "png"
        THEN http_header \o "Content-Type: image/png\r\n" \o accept_bytes
        ELSE IF file_type = "ico"
        THEN http_header \o "Content-Type: image/icon\r\n" \o accept_bytes
        ELSE IF file_type = "gif"
        THEN http_header \o "Content-Type: image/gif\r\n" \o accept_bytes
        ELSE http_header

\* not_found with a body that lacks the line end
not_found_without_line_end(date) ==
    Returned(404, [status |-> STATUS_CODE[404],
                   header |-> get_http_header(Len("404 Not Found"), "", date),
                   body |-> "404 Not Found"])

\* not_found
not_found(date) ==
    LET massage == "404 Not Found\r\n" IN
    Returned(404, [status |-> STATUS_CODE[404],
                   header |-> get_http_header(Len(massage), "", date),
                   body |-> massage])

\* ok
ok(fs, data, url, date) ==
    LET file == get_file_data(fs, url)
        read == url # "" /\ data = ""
        body == IF read THEN file.data ELSE data
    IN  IF read /\ file.raised # "none" THEN Raised(file.raised)
        ELSE Returned(200, [status |-> STATUS_CODE[200],
                            header |-> get_http_header(Len(body), url, date),
                            body |-> body])

\* moved_temporarily
moved_temporarily(fs, url, date) ==
    LET target == REDIRECTION_DICTIONARY[url]
        file == get_file_data(fs, target)
        location == "Location: http://" \o target \o "\r\n"
    IN  IF ~isfile(fs, target) THEN not_found(date)
        ELSE IF file.raised # "none" THEN Raised(file.raised)
        ELSE Returned(302, [status |-> STATUS_CODE[302],
                            header |-> location \o
                                       get_http_header(Len(file.data), target, date),
                            body |-> file.data])

\* internal_server_error with the header sized to the status text instead of
\* the message
internal_server_error_status_length(message, date) ==
    Returned(500, [status |-> STATUS_CODE[500],
                   header |-> get_http_header(Len("Internal Server Error"), "", date),
                   body |-> message])

\* internal_server_error
internal_server_error(message, date) ==
    Returned(500, [status |-> STATUS_CODE[500],
                   header |-> get_http_header(Len(message), "", date),
                   body |-> message])

\* calculate_area, lines 190-194: half is str(int(height) * int(width) / 2)
area_response(fs, half, date) ==
    IF half.raised # "none" THEN Raised(half.raised)
    ELSE IF EndsWith(half.text, ".0")
    THEN ok(fs, SubSeq(half.text, 1, Len(half.text) - 2), "", date)
    ELSE ok(fs, half.text, "", date)

\* calculate_area, lines 184-194
area_of(fs, height, width, date) ==
    IF ~isnumeric(height) \/ ~isnumeric(width)
    THEN internal_server_error("Not numeric value for height or width", date)
    ELSE IF ~IntParses(height) \/ ~IntParses(width) THEN Raised("ValueError")
    ELSE area_response(fs, StrOfHalf(BigMul(IntOf(height), IntOf(width))), date)

\* calculate_area, lines 181-185, refusing only fewer than two parameters
area_of_parameters_at_least_two(fs, parameters, date) ==
    IF Len(parameters) < 2
    THEN internal_server_error(
             "Many or less parameters, expected 2, got "
                 \o IntStr(Len(parameters)), date)
    ELSE area_of(fs, Last(Split(parameters[1], "=")),
                 Last(Split(parameters[2], "=")), date)

\* calculate_area, lines 181-185
area_of_parameters(fs, parameters, date) ==
    IF Len(parameters) # 2
    THEN internal_server_error(
             "Many or less parameters, expected 2, got "
                 \o IntStr(Len(parameters)), date)
    ELSE area_of(fs, Last(Split(parameters[1], "=")),
                 Last(Split(parameters[2], "=")), date)

\* calculate_area
calculate_area(fs, request, date) ==
    area_of_parameters(fs, Split(Last(Split(request, "?")), "&"), date)

(***************************************************************************)
(* The Router: handle_client_request                                       *)
(***************************************************************************)
\* line 113: the default path for "" and "/", else the target without its
\* leading and trailing slashes
strip_url(resource) ==
    IF resource = "" \/ resource = "/" THEN DEFAULT_URL ELSE Strip(resource, "/")

\* lines 118-119: the path under webroot/
prefix_url(url) == IF ~StartsWith(url, "webroot/") THEN "webroot/" \o url ELSE url

\* the routing with the file test of line 131 made before the test of line 127
route_file_before_area(fs, stripped, url, server_function, date) ==
    IF EndsWith(stripped, "exit")
    THEN [ret |-> CLOSE_SERVER_STATUS_CODE, sent |-> <<>>, raised |-> "none"]
    ELSE IF url \in DOMAIN REDIRECTION_DICTIONARY
    THEN moved_temporarily(fs, url, date)
    ELSE IF isfile(fs, url) THEN ok(fs, "", url, date)
    ELSE IF Contains(server_function, "calculate-area")
    THEN calculate_area(fs, server_function, date)
    ELSE not_found(date)

\* lines 121-135: the routing of the path url, stripped being the path
\* before the prefix was added
route(fs, stripped, url, server_function, date) ==
    IF EndsWith(stripped, "exit")
    THEN [ret |-> CLOSE_SERVER_STATUS_CODE, sent |-> <<>>, raised |-> "none"]
    ELSE IF url \in DOMAIN REDIRECTION_DICTIONARY
    THEN moved_temporarily(fs, url, date)
    ELSE IF Contains(server_function, "calculate-area")
    THEN calculate_area(fs, server_function, date)
    ELSE IF ~isfile(fs, url) THEN not_found(date)
    ELSE ok(fs, "", url, date)

route_url(fs, stripped, url, date) ==
    route(fs, stripped, url, Last(Split(url, "/")), date)
route_stripped(fs, stripped, date) ==
    route_url(fs, stripped, prefix_url(stripped), date)

handle_client_request(fs, resource, date) ==
    route_stripped(fs, strip_url(resource), date)

(***************************************************************************)
(* The inputs of the model: the file systems the server may run on, the    *)
(* formatted times of its clock and the bytes a client may send.           *)
(***************************************************************************)
WebRoot ==
    ("webroot/index.html" :> [data |-> "<html>home</html>", readable |-> TRUE]) @@
    ("webroot/style.css" :> [data |-> "p{}", readable |-> TRUE]) @@
    ("webroot/a.gif" :> [data |-> "GIF89a", readable |-> TRUE]) @@
    ("webroot/data.bin" :> [data |-> "\r\n\r\n", readable |-> TRUE]) @@
    ("webroot/README" :> [data |-> "read me", readable |-> TRUE]) @@
    ("webroot/empty.txt" :> [data |-> "", readable |-> TRUE]) @@
    ("webroot/home" :> [data |-> "a file called home", readable |-> TRUE]) @@
    ("webroot/calculate-area" :> [data |-> "a file", readable |-> TRUE]) @@
    ("webroot/app.js" :> [data |-> "var a;", readable |-> TRUE]) @@
    ("webroot/photo.jpg" :> [data |-> "JFIF", readable |-> TRUE]) @@
    ("webroot/logo.png" :> [data |-> "PNG", readable |-> TRUE]) @@
    ("webroot/favicon.ico" :> [data |-> "ICO", readable |-> TRUE]) @@
    ("webroot/PIC.JPG" :> [data |-> "JFIF", readable |-> TRUE]) @@
    ("webroot/v1.css/notes" :> [data |-> "notes", readable |-> TRUE]) @@
    ("webroot/secret.html" :> [data |-> "", readable |-> FALSE])

FileSystems ==
    { WebRoot,
      [p \in DOMAIN WebRoot \ {"webroot/index.html"} |-> WebRoot[p]],
      [WebRoot EXCEPT !["webroot/index.html"].readable = FALSE] }

Dates == {"Wed, 04 Nov 2026 09:00:00 GMT"}

\* the values of the computed endpoint's parameters
Values == {"10", "4", "3", "0", "007", "", "a", "-1", "1.5", "²",
           "100000000", "200000000", "94906267"}

AreaQueries ==
    {"", "?", "?height=10", "?height=1&width=2&depth=3", "?a=1&b=2?c=3",
     "?3&3", "?w=10&h=4", "?height=3=4&width=5", "&", "&x=1&y=2", "=4&x=6"}
    \cup {"?height=" \o h \o "&width=" \o w : h \in Values, w \in Values}

Targets ==
    {"/", "/index.html", "/webroot/index.html", "/webroot/", "/home", "/home.html",
     "/webroot/home", "/webroot/home.html", "//home", "/home/",
     "/exit", "/webroot/exit", "/exit/", "/a/b/exit", "/noexit", "/exit?x=1",
     "/exit.html", "/calculate-area?exit", "/style.css", "/a.gif", "/data.bin",
     "/README", "/empty.txt", "/secret.html", "/missing.html", "/missing",
     "/missing.gif", "/area/calculate-area?height=2&width=3",
     "/my-calculate-area-2?height=2&width=3", "/app.js", "/photo.jpg",
     "/logo.png", "/favicon.ico", "/PIC.JPG", "/v1.css/notes"}
    \cup {"/calculate-area" \o q : q \in AreaQueries}

\* first lines that are not "GET <target> HTTP/1.1"
OddLines ==
    {"", "GET", "GET /", "GET / HTTP/1.1 extra", "POST / HTTP/1.1",
     "GETX / HTTP/1.1", " GET / HTTP/1.1", "get / HTTP/1.1", "GET / FTP/1.0",
     "GET / http/1.1", "GET / xHTTPx", "GET\t/\tHTTP/1.1", "GET  /   HTTP/1.1 ",
     "GET/ HTTP/1.1 x", "GET/index.html /style.css HTTP/1.1",
     "GET / HTTP/1.1\nHost: localhost", "HEAD /exit HTTP/1.1",
     "GETTER /exit HTTP/1.0", "/ GET HTTP/1.1", "GET HTTP/1.1", "HTTP/1.1 / GET"}

Requests ==
    {"GET " \o t \o " HTTP/1.1\r\nHost: localhost\r\n\r\n" : t \in Targets}
    \cup {l \o "\r\n\r\n" : l \in OddLines}
    \cup {"", "GET / HTTP/1.1", "\r\nGET / HTTP/1.1\r\n\r\n"}

(***************************************************************************)
(* main and handle_client.  pc is the place of the single thread:          *)
(*   "accept"        blocked in server_socket.accept()                     *)
(*   "recv"          in handle_client, blocked in client_socket.recv()     *)
(*   "close_client"  after the session loop, before client_socket.close()  *)
(*   "except"        an exception has left handle_client                   *)
(*   "finally"       the accept loop is left, before server_socket.close() *)
(*   "done"          main has returned                                     *)
(***************************************************************************)
Init ==
    /\ pc = "accept"
    /\ server_socket = "listening"
    /\ client_socket = "none"
    /\ close_sever = FALSE
    /\ exc = "none"
    /\ accepted = 0
    /\ served = 0
    /\ client_request = ""
    /\ sent = <<>>
    /\ files \in FileSystems

\* main, lines 44-48: accept a connection and enter handle_client
Accept ==
    /\ pc = "accept"
    /\ accepted < MaxConnections
    /\ accepted' = accepted + 1
    /\ client_socket' = "open"
    /\ close_sever' = FALSE
    /\ served' = 0
    /\ client_request' = ""
    /\ sent' = <<>>
    /\ pc' = "recv"
    /\ UNCHANGED <<server_socket, exc, files>>

\* handle_client, lines 72-81: what one turn of the session loop does with
\* the bytes request that recv returned
SessionTurn(fs, request, date) ==
    LET v == validate_http_request(request) IN
    [valid |-> v[1],
     resource |-> v[2],
     out |-> IF v[1] THEN handle_client_request(fs, v[2], date)
             ELSE [ret |-> 0, sent |-> <<>>, raised |-> "none"]]

\* SessionTurn, tabulated over the inputs of the model
Turns ==
    [fs \in FileSystems, request \in Requests, date \in Dates
        |-> SessionTurn(fs, request, date)]

\* the session loop leaving the loop after an error response
SessionLoop_closes_after_error(request, turn) ==
    /\ pc = "recv"
    /\ served < MaxRequests
    /\ served' = served + 1
    /\ client_request' = request
    /\ sent' = turn.out.sent
    /\ IF ~turn.valid
       THEN /\ pc' = "close_client"
            /\ UNCHANGED <<close_sever, exc>>
       ELSE IF turn.out.raised # "none"
       THEN /\ exc' = turn.out.raised
            /\ pc' = "except"
            /\ UNCHANGED close_sever
       ELSE IF turn.out.ret = CLOSE_SERVER_STATUS_CODE
       THEN /\ close_sever' = TRUE
            /\ pc' = "close_client"
            /\ UNCHANGED exc
       ELSE /\ pc' = IF turn.out.ret \in {404, 500} THEN "close_client" ELSE "recv"
            /\ UNCHANGED <<close_sever, exc>>
    /\ UNCHANGED <<server_socket, client_socket, accepted, files>>

\* handle_client, lines 69-81: one turn of the session loop, turn being what
\* SessionTurn makes of the bytes request that recv returned
SessionLoop(request, turn) ==
    /\ pc = "recv"
    /\ served < MaxRequests
    /\ served' = served + 1
    /\ client_request' = request
    /\ sent' = turn.out.sent
    /\ IF ~turn.valid
       THEN /\ pc' = "close_client"
            /\ UNCHANGED <<close_sever, exc>>
       ELSE IF turn.out.raised # "none"
       THEN /\ exc' = turn.out.raised
            /\ pc' = "except"
            /\ UNCHANGED close_sever
       ELSE IF turn.out.ret = CLOSE_SERVER_STATUS_CODE
       THEN /\ close_sever' = TRUE
            /\ pc' = "close_client"
            /\ UNCHANGED exc
       ELSE /\ pc' = "recv"
            /\ UNCHANGED <<close_sever, exc>>
    /\ UNCHANGED <<server_socket, client_socket, accepted, files>>

Recv(request, date) == SessionLoop(request, Turns[files, request, date])

\* line 69: recv raises socket.timeout after SOCKET_TIMEOUT seconds
RecvTimeout ==
    /\ pc = "recv"
    /\ exc' = "timeout"
    /\ pc' = "except"
    /\ UNCHANGED <<server_socket, client_socket, close_sever, accepted, served,
                   client_request, sent, files>>

\* line 69: recv or decode raises another exception
RecvError ==
    /\ pc = "recv"
    /\ exc' \in {"ConnectionResetError", "UnicodeDecodeError"}
    /\ pc' = "except"
    /\ UNCHANGED <<server_socket, client_socket, close_sever, accepted, served,
                   client_request, sent, files>>

\* CloseClient with main going back to accept whatever handle_client returned
CloseClient_keeps_accepting ==
    /\ pc = "close_client"
    /\ client_socket' = "closed"
    /\ pc' = "accept"
    /\ UNCHANGED <<server_socket, close_sever, exc, accepted, served,
                   client_request, sent, files>>

\* CloseClient with handle_client returning CLOSE_SERVER_STATUS_CODE always
CloseClient_always_stops ==
    /\ pc = "close_client"
    /\ client_socket' = "closed"
    /\ pc' = "finally"
    /\ UNCHANGED <<server_socket, close_sever, exc, accepted, served,
                   client_request, sent, files>>

\* handle_client, lines 83-86, and main, lines 48-49
CloseClient ==
    /\ pc = "close_client"
    /\ client_socket' = "closed"
    /\ pc' = IF close_sever THEN "finally" ELSE "accept"
    /\ UNCHANGED <<server_socket, close_sever, exc, accepted, served,
                   client_request, sent, files>>

\* Except with the break of line 57 in both except clauses
Except_always_stops ==
    /\ pc = "except"
    /\ client_socket' = "closed"
    /\ pc' = "finally"
    /\ UNCHANGED <<server_socket, close_sever, exc, accepted, served,
                   client_request, sent, files>>

\* Except with the continue of line 53 in both except clauses
Except_keeps_accepting ==
    /\ pc = "except"
    /\ client_socket' = "closed"
    /\ pc' = "accept"
    /\ UNCHANGED <<server_socket, close_sever, exc, accepted, served,
                   client_request, sent, files>>

\* Except without the client_socket.close() of lines 52 and 56
Except_leaves_client_open ==
    /\ pc = "except"
    /\ client_socket' = client_socket
    /\ pc' = IF exc = "timeout" THEN "accept" ELSE "finally"
    /\ UNCHANGED <<server_socket, close_sever, exc, accepted, served,
                   client_request, sent, files>>

\* main, lines 50-57: the two except clauses
Except ==
    /\ pc = "except"
    /\ client_socket' = "closed"
    /\ pc' = IF exc = "timeout" THEN "accept" ELSE "finally"
    /\ UNCHANGED <<server_socket, close_sever, exc, accepted, served,
                   client_request, sent, files>>

\* main, lines 58-60
Finally ==
    /\ pc = "finally"
    /\ server_socket' = "closed"
    /\ pc' = "done"
    /\ UNCHANGED <<client_socket, close_sever, exc, accepted, served,
                   client_request, sent, files>>

Next ==
    \/ Accept
    \/ \E request \in Requests, date \in Dates : Recv(request, date)
    \/ RecvTimeout
    \/ RecvError
    \/ CloseClient
    \/ Except
    \/ Finally

Spec == Init /\ [][Next]_vars

\* lines 83-86 and 48-49, and lines 58-60, are straight-line code: once
\* control is there the statements are executed
FairSpec == Spec /\ WF_vars(CloseClient) /\ WF_vars(Finally)

\* the except clauses of lines 50-57 are straight-line code as well
FairExceptSpec == FairSpec /\ WF_vars(Except)

(***************************************************************************)
(* What the last turn of the session loop was about.  client_request is    *)
(* the request the last turn read, and served > 0 says there was a turn on *)
(* the current connection.                                                 *)
(***************************************************************************)
Turned == served > 0

\* what lines 72, 113, 118-119 and 125 make of a request
PathParts(valid, resource, stripped, url) ==
    [valid |-> valid, resource |-> resource, stripped |-> stripped, url |-> url,
     segment |-> Last(Split(url, "/"))]
PathOfStripped(valid, resource, stripped) ==
    PathParts(valid, resource, stripped, prefix_url(stripped))
PathOfResource(valid, resource) ==
    PathOfStripped(valid, resource, strip_url(resource))
PathOf(validated) == PathOfResource(validated[1], validated[2])

\* PathOf, tabulated over the requests of the model
Paths == [request \in Requests |-> PathOf(validate_http_request(request))]

LastValid == Paths[client_request].valid
LastResource == Paths[client_request].resource
LastStripped == Paths[client_request].stripped
LastUrl == Paths[client_request].url
LastSegment == Paths[client_request].segment

\* the text of the request before the first \r\n, in whitespace-separated tokens
FirstLineTokens(request) == SplitWhitespace(Split(request, "\r\n")[1])

\* three tokens, the first exactly GET, the third containing HTTP
ThreeTokenGet(request) ==
    /\ Len(FirstLineTokens(request)) = 3
    /\ FirstLineTokens(request)[1] = "GET"
    /\ Contains(FirstLineTokens(request)[3], "HTTP")

(***************************************************************************)
(* C1: validate_http_request accepts a request if and only if its first    *)
(* line has exactly three whitespace-separated tokens, the first token is  *)
(* exactly GET and the third token contains HTTP.  The code tests that the *)
(* line starts with the letters GET, so the statement fails in both        *)
(* directions: "GETX / HTTP/1.1" is accepted, " GET / HTTP/1.1" is not.    *)
(***************************************************************************)
C1_AcceptsIffThreeTokenGet ==
    Turned => (LastValid <=> ThreeTokenGet(client_request))

(***************************************************************************)
(* C2: in every response written to the client the header block ends with  *)
(* the blank line \r\n\r\n.  get_http_header adds the blank line only in   *)
(* the branches of the file types it knows, so the statement fails for a   *)
(* file of any other type.                                                 *)
(***************************************************************************)
C2_HeaderEndsWithBlankLine ==
    \A i \in 1..Len(sent) : EndsWith(sent[i].header, "\r\n\r\n")

\* the lines of a header block that give the Content-Length
ContentLengthLines(header) ==
    {i \in 1..Len(Split(header, "\r\n")) :
        StartsWith(Split(header, "\r\n")[i], "Content-Length:")}

(***************************************************************************)
(* C3: every response sent has exactly one Content-Length header line, and *)
(* its value is the number of bytes of the body sent after the header      *)
(* block.                                                                  *)
(***************************************************************************)
C3_ContentLengthIsBodyLength ==
    \A i \in 1..Len(sent) :
        /\ Cardinality(ContentLengthLines(sent[i].header)) = 1
        /\ \A k \in ContentLengthLines(sent[i].header) :
               Split(sent[i].header, "\r\n")[k]
                   = "Content-Length: " \o IntStr(Len(sent[i].body))

\* a 500 response with its message has been sent
C3_Witness ==
    /\ Turned
    /\ Len(sent) = 1
    /\ sent[1].status = STATUS_CODE[500]
    /\ sent[1].body = "Not numeric value for height or width"
    /\ Contains(sent[1].header, "Content-Length: 37\r\n")

\* the last request was valid and its path ends with the terminate keyword,
\* which is the test of line 115
TerminateRouted == Turned /\ LastValid /\ EndsWith(LastStripped, "exit")

(***************************************************************************)
(* C4: a valid request routed to Terminate gets no response; the client    *)
(* connection is closed first, then the accept loop is left and the        *)
(* listening socket is closed; once it is closed no connection is accepted *)
(* any more.                                                               *)
(***************************************************************************)
C4_TerminateStopsServer ==
    /\ [](TerminateRouted =>
            /\ sent = <<>>
            /\ close_sever
            /\ \/ pc = "close_client" /\ client_socket = "open"
                                      /\ server_socket = "listening"
               \/ pc = "finally" /\ client_socket = "closed"
                                 /\ server_socket = "listening"
               \/ pc = "done" /\ client_socket = "closed"
                              /\ server_socket = "closed")
    /\ [][TerminateRouted /\ pc = "close_client" =>
            client_socket' = "closed" /\ server_socket' = "listening"
                /\ pc' = "finally"]_vars
    /\ [][TerminateRouted /\ pc = "finally" =>
            server_socket' = "closed" /\ pc' = "done"]_vars
    /\ [][server_socket = "closed" =>
            server_socket' = "closed" /\ accepted' = accepted
                /\ client_socket' = client_socket]_vars
    /\ (TerminateRouted ~> server_socket = "closed")

\* the server has stopped after a Terminate request, with connections left
\* that it could have accepted
C4_Witness ==
    /\ TerminateRouted
    /\ pc = "done"
    /\ server_socket = "closed"
    /\ client_socket = "closed"
    /\ accepted < MaxConnections

(***************************************************************************)
(* C5: handle_client_request returns CLOSE_SERVER_STATUS_CODE if and only  *)
(* if the final segment of the normalized path, the text after its last    *)
(* "/", equals "exit".  The code tests that the whole path ends with the   *)
(* letters exit, so it also terminates for "/noexit".                      *)
(***************************************************************************)
C5_TerminateIffFinalSegmentExit ==
    Turned /\ LastValid => (close_sever <=> LastSegment = "exit")

\* the last read failed validation
Rejected == Turned /\ ~LastValid

(***************************************************************************)
(* C6: when the bytes read fail validation, the empty read included, the   *)
(* server sends nothing, leaves the session loop, closes the client        *)
(* connection and is back at accept with the listening socket open.        *)
(***************************************************************************)
C6_InvalidRequestClosesConnectionOnly ==
    /\ [](Rejected =>
            /\ sent = <<>>
            /\ ~close_sever
            /\ server_socket = "listening"
            /\ \/ pc = "close_client" /\ client_socket = "open"
               \/ pc = "accept" /\ client_socket = "closed"
            /\ pc = "accept" /\ accepted < MaxConnections => ENABLED Accept)
    /\ [][Rejected /\ pc = "close_client" =>
            client_socket' = "closed" /\ pc' = "accept"
                /\ server_socket' = "listening"]_vars
    /\ (Rejected /\ pc = "close_client"
            ~> pc = "accept" /\ client_socket = "closed")

\* an empty read has been handled and the server is back at accept
C6_Witness ==
    /\ Rejected
    /\ client_request = ""
    /\ pc = "accept"
    /\ client_socket = "closed"
    /\ server_socket = "listening"

\* the last request was valid and reached the not_found call of line 132
NotFoundRouted ==
    /\ Turned
    /\ LastValid
    /\ ~EndsWith(LastStripped, "exit")
    /\ LastUrl \notin DOMAIN REDIRECTION_DICTIONARY
    /\ ~Contains(LastSegment, "calculate-area")
    /\ ~isfile(files, LastUrl)

(***************************************************************************)
(* C7: a valid request whose path is not the terminate path, not a key of  *)
(* REDIRECTION_DICTIONARY, has no calculate-area in its final segment and  *)
(* is not a file gets one response, with the status line                   *)
(* "HTTP/1.1 404 Not Found" and the 15 characters "404 Not Found\r\n" as   *)
(* its body.                                                               *)
(***************************************************************************)
C7_NotFoundResponse ==
    NotFoundRouted =>
        /\ Len(sent) = 1
        /\ sent[1].status = "HTTP/1.1 404 Not Found\r\n"
        /\ sent[1].body = "404 Not Found\r\n"
        /\ Len(sent[1].body) = 15

\* a request for a missing file has been answered
C7_Witness ==
    /\ NotFoundRouted
    /\ LastResource = "/missing.html"
    /\ Len(sent) = 1
    /\ pc = "recv"

\* the last request was valid and reached the calculate_area call of line 128
AreaRouted ==
    /\ Turned
    /\ LastValid
    /\ ~EndsWith(LastStripped, "exit")
    /\ LastUrl \notin DOMAIN REDIRECTION_DICTIONARY
    /\ Contains(LastSegment, "calculate-area")

\* the parameters of line 180 and the two values of lines 184-185
ParametersOf(segment) == Split(Last(Split(segment, "?")), "&")
ValueOf(parameter) == Last(Split(parameter, "="))
DigitsOnly(s) == s # "" /\ \A i \in 1..Len(s) : IsDecimalCh(Ch(s, i))

\* the decimal text of (h * w) / 2 in exact arithmetic: the integer when the
\* product is even, the integer part followed by .5 when it is odd
ExactHalfOf(product) ==
    StrOf(BigHalf(product)) \o (IF BigOdd(product) THEN ".5" ELSE "")
ExactHalf(h, w) == ExactHalfOf(BigMul(IntOf(h), IntOf(w)))

\* what the statement of C8 expects of a request, when it speaks of it
AreaExpected(parameters) ==
    IF Len(parameters) = 2 /\ DigitsOnly(ValueOf(parameters[1]))
                           /\ DigitsOnly(ValueOf(parameters[2]))
    THEN <<ExactHalf(ValueOf(parameters[1]), ValueOf(parameters[2]))>>
    ELSE <<>>
AreasExpected ==
    [request \in Requests |-> AreaExpected(ParametersOf(Paths[request].segment))]

(***************************************************************************)
(* C8: a calculate-area request with two parameters whose values h and w   *)
(* are made of decimal digits only gets a 200 response whose body is       *)
(* (h * w) / 2: the decimal integer when h * w is even, the decimal ending *)
(* in .5 when it is odd.  The code renders a float, so beyond 1e16 the     *)
(* body is in exponent notation and beyond 2^53 the half is lost.          *)
(***************************************************************************)
C8_AreaIsExactHalf ==
    AreaRouted /\ AreasExpected[client_request] # <<>> =>
        /\ Len(sent) = 1
        /\ sent[1].status = STATUS_CODE[200]
        /\ sent[1].body = AreasExpected[client_request][1]

\* the part of C8 that is about products below 1e16, where it holds
C8_SmallAreaIsExactHalf ==
    AreaRouted /\ AreasExpected[client_request] # <<>>
               /\ Len(AreasExpected[client_request][1]) <= 16 =>
        /\ Len(sent) = 1
        /\ sent[1].status = STATUS_CODE[200]
        /\ sent[1].body = AreasExpected[client_request][1]

NonDigitValue ==
    /\ AreaRouted
    /\ Len(ParametersOf(LastSegment)) = 2
    /\ \/ ~DigitsOnly(ValueOf(ParametersOf(LastSegment)[1]))
       \/ ~DigitsOnly(ValueOf(ParametersOf(LastSegment)[2]))

(***************************************************************************)
(* C10: a calculate-area request with two parameters of which a value is   *)
(* empty or has a character other than the digits 0-9 gets a 500 response  *)
(* that names the non-numeric value, and the connection is open for the    *)
(* next read of the session loop (until a later read fails).  The code     *)
(* tests the values with str.isnumeric, which accepts characters that      *)
(* int() refuses, "²" for one.                                             *)
(***************************************************************************)
C10_NonNumericValueIs500 ==
    NonDigitValue =>
        /\ Len(sent) = 1
        /\ sent[1].status = STATUS_CODE[500]
        /\ sent[1].body = "Not numeric value for height or width"
        /\ \/ pc = "recv" /\ client_socket = "open"
           \/ exc \in {"timeout", "ConnectionResetError", "UnicodeDecodeError"}

\* the last request was valid and reached the moved_temporarily call of
\* line 123
RedirectRouted ==
    /\ Turned
    /\ LastValid
    /\ ~EndsWith(LastStripped, "exit")
    /\ LastUrl \in DOMAIN REDIRECTION_DICTIONARY

\* the one response sent is a 302 with the bytes of the file target as its
\* body, and the length and the type of that file in its header
RedirectsTo(target) ==
    /\ Len(sent) = 1
    /\ sent[1].status = STATUS_CODE[302]
    /\ sent[1].body = files[target].data
    /\ Contains(sent[1].header,
                "\r\nContent-Length: " \o IntStr(Len(files[target].data)) \o "\r\n")
    /\ Contains(sent[1].header, "\r\nContent-Type: text/html\r\n")

\* the one response sent is the 404 response
SentNotFound ==
    /\ Len(sent) = 1
    /\ sent[1].status = STATUS_CODE[404]
    /\ sent[1].body = "404 Not Found\r\n"

(***************************************************************************)
(* C11: a request whose path is a key of REDIRECTION_DICTIONARY gets, when *)
(* the mapped target is a file, a 302 whose body is the bytes of the       *)
(* target, and, when the target is not a file, the 404 response and no     *)
(* 302.  moved_temporarily reads the target without a handler, so when the *)
(* target is a file that cannot be read nothing is sent.                   *)
(***************************************************************************)
C11_RedirectOrNotFound ==
    RedirectRouted =>
        IF isfile(files, REDIRECTION_DICTIONARY[LastUrl])
        THEN RedirectsTo(REDIRECTION_DICTIONARY[LastUrl])
        ELSE SentNotFound

\* the part of C11 that is about a target that is missing or can be read,
\* where it holds
C11_ReadableRedirectOrNotFound ==
    RedirectRouted =>
        IF ~isfile(files, REDIRECTION_DICTIONARY[LastUrl]) THEN SentNotFound
        ELSE files[REDIRECTION_DICTIONARY[LastUrl]].readable =>
                RedirectsTo(REDIRECTION_DICTIONARY[LastUrl])

\* value is scheme://host/target for some host
IsAbsoluteUrlOf(value, target) ==
    /\ StartsWith(value, "http://") \/ StartsWith(value, "https://")
    /\ EndsWith(value, "/" \o target)
    /\ Len(value) > Len("https://") + Len("/" \o target)

\* the text of a header line after "Location: "
LocationValue(line) == SubSeq(line, Len("Location: ") + 1, Len(line))

(***************************************************************************)
(* C12: in every 302 response the line after the status line is a Location *)
(* header, the Date header follows it, and the value of the Location       *)
(* header is an absolute URL: scheme, host, then the redirect target.  The *)
(* code writes "http://" followed by the target, with no host.             *)
(***************************************************************************)
C12_LocationIsAbsoluteUrl ==
    \A i \in 1..Len(sent) :
        sent[i].status = STATUS_CODE[302] =>
            /\ StartsWith(Split(sent[i].header, "\r\n")[1], "Location: ")
            /\ StartsWith(Split(sent[i].header, "\r\n")[2], "Date: ")
            /\ IsAbsoluteUrlOf(LocationValue(Split(sent[i].header, "\r\n")[1]),
                               REDIRECTION_DICTIONARY[LastUrl])

\* the part of C12 that is about the place of the Location header, which holds
C12_LocationIsFirstHeader ==
    \A i \in 1..Len(sent) :
        sent[i].status = STATUS_CODE[302] =>
            /\ StartsWith(Split(sent[i].header, "\r\n")[1], "Location: ")
            /\ StartsWith(Split(sent[i].header, "\r\n")[2], "Date: ")

\* the last request was valid and reached the ok call of line 135, for a
\* file that can be read
FileRouted ==
    /\ Turned
    /\ LastValid
    /\ ~EndsWith(LastStripped, "exit")
    /\ LastUrl \notin DOMAIN REDIRECTION_DICTIONARY
    /\ ~Contains(LastSegment, "calculate-area")
    /\ isfile(files, LastUrl)
    /\ files[LastUrl].readable

\* the extension of a path: the text after its last ".", none ("") for a
\* path without "."
ExtensionOf(url) == IF Contains(url, ".") THEN Last(Split(url, ".")) ELSE ""

ContentTypes ==
    [ext \in {"html", "txt", "css", "js", "jpg", "png", "ico", "gif"} |->
        CASE ext \in {"html", "txt"} -> "text/html"
          [] ext = "css" -> "text/css"
          [] ext = "js" -> "text/javascript"
          [] ext = "jpg" -> "image/jpeg"
          [] ext = "png" -> "image/png"
          [] ext = "ico" -> "image/icon"
          [] ext = "gif" -> "image/gif"]

\* the header lines of a header block
HeaderLines(header) ==
    {Split(header, "\r\n")[i] : i \in 1..Len(Split(header, "\r\n"))}
LinesNamed(lines, name) == {line \in lines : StartsWith(line, name \o ":")}

\* the lines are those of a header block for a path with extension ext
TypedFor(lines, ext) ==
    /\ LinesNamed(lines, "Content-Type") =
           IF ext \in DOMAIN ContentTypes
           THEN {"Content-Type: " \o ContentTypes[ext]} ELSE {}
    /\ LinesNamed(lines, "Accept-Ranges") =
           IF ext \in {"jpg", "png", "ico", "gif"}
           THEN {"Accept-Ranges: bytes"} ELSE {}

(***************************************************************************)
(* C13: the header block of the response for a file has the Content-Type   *)
(* of the file's extension: text/html for html and txt, text/css for css,  *)
(* text/javascript for js, image/jpeg for jpg, image/png for png,          *)
(* image/icon for ico, image/gif for gif, and no Content-Type for any      *)
(* other or no extension; it has "Accept-Ranges: bytes" if and only if the *)
(* extension is jpg, png, ico or gif.                                      *)
(***************************************************************************)
C13_ContentTypeOfExtension ==
    FileRouted =>
        /\ Len(sent) = 1
        /\ TypedFor(HeaderLines(sent[1].header), ExtensionOf(LastUrl))

\* a gif file has been sent
C13_Witness ==
    /\ FileRouted
    /\ LastUrl = "webroot/a.gif"
    /\ Len(sent) = 1
    /\ "Content-Type: image/gif" \in HeaderLines(sent[1].header)
    /\ "Accept-Ranges: bytes" \in HeaderLines(sent[1].header)

(***************************************************************************)
(* C14: the turn of the session loop that sends a response (200, 302, 404  *)
(* or 500) leaves the connection open and the loop at its next read; the   *)
(* client socket is closed only after a request that failed validation,    *)
(* after Terminate, or in an except clause of main (timeout or another     *)
(* exception).                                                             *)
(***************************************************************************)
C14_ResponseKeepsConnectionOpen ==
    /\ [][served' = served + 1 /\ sent' # <<>> =>
            /\ pc' = "recv"
            /\ client_socket' = "open"
            /\ accepted' = accepted]_vars
    /\ [][client_socket = "open" /\ client_socket' = "closed" =>
            \/ pc = "close_client" /\ Rejected
            \/ pc = "close_client" /\ TerminateRouted
            \/ pc = "except" /\ exc # "none"]_vars

\* a second request was read on a connection and answered with the 404
\* response, and the loop is at its next read
C14_Witness ==
    /\ served > 1
    /\ Len(sent) = 1
    /\ sent[1].status = STATUS_CODE[404]
    /\ pc = "recv"
    /\ client_socket = "open"

\* recv raised socket.timeout and control is in the except clause of line 50
TimedOut == pc = "except" /\ exc = "timeout"

(***************************************************************************)
(* C15: when a read of the session loop, the first or a later one, raises  *)
(* socket.timeout, the client socket is closed, the listening socket stays *)
(* open and control returns to accept, where the next connection is        *)
(* accepted.                                                               *)
(***************************************************************************)
C15_TimeoutClosesConnectionOnly ==
    /\ [](pc = "recv" => ENABLED RecvTimeout)
    /\ [](TimedOut => client_socket = "open" /\ server_socket = "listening")
    /\ [][TimedOut =>
            /\ client_socket' = "closed"
            /\ server_socket' = "listening"
            /\ pc' = "accept"]_vars
    /\ [](pc = "accept" /\ accepted < MaxConnections => ENABLED Accept)
    /\ (TimedOut ~> pc = "accept" /\ client_socket = "closed"
                                  /\ server_socket = "listening")

\* a read after the first one timed out and the server is back at accept,
\* with connections left to accept
C15_Witness ==
    /\ pc = "accept"
    /\ exc = "timeout"
    /\ served > 0
    /\ client_socket = "closed"
    /\ server_socket = "listening"
    /\ accepted < MaxConnections

\* an exception other than socket.timeout was raised and control is in the
\* except clause of line 54
Failed == pc = "except" /\ exc \notin {"none", "timeout"}

(***************************************************************************)
(* C16: when an exception other than socket.timeout is raised while a      *)
(* connection is served, the client socket is closed, the accept loop is   *)
(* left, the listening socket is closed and no connection is accepted any  *)
(* more.                                                                   *)
(***************************************************************************)
C16_ExceptionStopsServer ==
    /\ [](Failed => client_socket = "open" /\ server_socket = "listening")
    /\ [][Failed =>
            /\ client_socket' = "closed"
            /\ pc' = "finally"
            /\ accepted' = accepted]_vars
    /\ [][pc = "finally" =>
            /\ server_socket' = "closed"
            /\ pc' = "done"
            /\ accepted' = accepted]_vars
    /\ [][pc = "done" => accepted' = accepted /\ server_socket' = "closed"]_vars
    /\ (Failed ~> server_socket = "closed" /\ client_socket = "closed")

\* the server has stopped after a connection reset, with connections left
\* that it could have accepted
C16_Witness ==
    /\ pc = "done"
    /\ exc = "ConnectionResetError"
    /\ ~close_sever
    /\ client_socket = "closed"
    /\ server_socket = "closed"
    /\ accepted < MaxConnections

\* a target without its first character when that is "/"
WithoutOneLeadingSlash(target) ==
    IF StartsWith(target, "/") THEN SubSeq(target, 2, Len(target)) ELSE target

\* the normalization that removes one leading "/" and nothing else
OneSlashNormalized(target) ==
    IF target = "" \/ target = "/" THEN DEFAULT_URL
    ELSE IF StartsWith(WithoutOneLeadingSlash(target), "webroot/")
    THEN WithoutOneLeadingSlash(target)
    ELSE "webroot/" \o WithoutOneLeadingSlash(target)

(***************************************************************************)
(* C17: handle_client_request normalizes an empty target or "/" to         *)
(* webroot/index.html; of any other target it removes exactly one leading  *)
(* "/" and nothing else, then prepends "webroot/" unless the result starts *)
(* with it.  The code calls strip('/'), which removes every leading and    *)
(* every trailing "/", so "//home" and "/home/" become the path of "/home".*)
(***************************************************************************)
C17_OneLeadingSlashRemoved ==
    Turned /\ LastValid => LastUrl = OneSlashNormalized(LastResource)

\* the part of C17 that is about targets with at most one leading "/" and
\* no trailing "/", where it holds
C17_PlainTargetNormalized ==
    /\ Turned
    /\ LastValid
    /\ ~StartsWith(LastResource, "//")
    /\ ~(EndsWith(LastResource, "/") /\ LastResource # "/")
    => LastUrl = OneSlashNormalized(LastResource)

\* the request was answered as the call with outcome out answers it
AnsweredBy(out) == sent = out.sent /\ (out.raised # "none" => exc = out.raised)

\* the request with the parts path, on the files fs, was handled by the
\* first of Terminate, Redirect, ComputedEndpoint, NotFound, StaticFile
\* whose condition it meets
FirstMatch(fs, path, date) ==
    IF EndsWith(path.stripped, "exit") THEN close_sever /\ sent = <<>>
    ELSE /\ ~close_sever
         /\ IF path.url \in DOMAIN REDIRECTION_DICTIONARY
            THEN AnsweredBy(moved_temporarily(fs, path.url, date))
            ELSE IF Contains(path.segment, "calculate-area")
            THEN AnsweredBy(calculate_area(fs, path.segment, date))
            ELSE IF ~isfile(fs, path.url) THEN AnsweredBy(not_found(date))
            ELSE AnsweredBy(ok(fs, "", path.url, date))

(***************************************************************************)
(* C18: a valid request is handled by the first rule it meets, in the      *)
(* order Terminate (the path before the prefix ends with exit), Redirect   *)
(* (the path is a key of REDIRECTION_DICTIONARY, whether or not it is a    *)
(* file), ComputedEndpoint (the last segment contains calculate-area,      *)
(* whether or not the path is a file), NotFound (the path is not a file),  *)
(* StaticFile.                                                             *)
(***************************************************************************)
C18_FirstMatchWins ==
    Turned /\ LastValid =>
        \E date \in Dates : FirstMatch(files, Paths[client_request], date)

\* a request for calculate-area, which is a file under webroot, has been
\* answered by the computed endpoint
C18_Witness ==
    /\ AreaRouted
    /\ isfile(files, LastUrl)
    /\ Len(sent) = 1
    /\ sent[1].status = STATUS_CODE[500]
    /\ sent[1].body # files[LastUrl].data

(***************************************************************************)
(* C19: at most one client connection is open at any time.  When accept    *)
(* returns a connection, and when the listening socket is closed, the      *)
(* connection accepted before has been closed; while the server waits in   *)
(* accept or is past the accept loop no client socket is open.             *)
(***************************************************************************)
C19_OneConnectionAtATime ==
    /\ [](pc \in {"accept", "finally", "done"} => client_socket # "open")
    /\ [](client_socket = "open" => pc \in {"recv", "close_client", "except"})
    /\ [][accepted' = accepted + 1 =>
            client_socket # "open" /\ client_socket' = "open"]_vars
    /\ [][server_socket = "listening" /\ server_socket' = "closed" =>
            client_socket # "open" /\ client_socket' # "open"]_vars

\* a second connection is being served, the first one having been closed
C19_Witness ==
    /\ accepted > 1
    /\ client_socket = "open"
    /\ pc = "recv"
    /\ server_socket = "listening"

\* the statuses of the responses the server sends
ResponseStatuses == {STATUS_CODE[c] : c \in DOMAIN STATUS_CODE}

(***************************************************************************)
(* C20: for every valid request that is not routed to Terminate exactly    *)
(* one response, a 200, 302, 404 or 500, is written before the next read,  *)
(* whatever os.path.isfile and the read of the file answer.  ok and        *)
(* moved_temporarily read the file without a handler, so when the read     *)
(* fails after os.path.isfile succeeded nothing is written.                *)
(***************************************************************************)
C20_ExactlyOneResponse ==
    Turned /\ LastValid /\ ~TerminateRouted =>
        /\ Len(sent) = 1
        /\ sent[1].status \in ResponseStatuses

\* no valid request is answered twice: the part of C20 that holds
C20_AtMostOneResponse == Len(sent) <= 1

====
